---------------------------- MODULE Spec2Model ----------------------------
(***************************************************************************)
(* A model of the turn-guidance toolkit                                    *)
(* (include/extractor/guidance/toolkit.hpp): the geometry sampler, the     *)
(* direction modifier algebra, angle discretization and classification,   *)
(* conflict resolution among turn instructions and the name-change         *)
(* heuristic.                                                              *)
(*                                                                         *)
(* Angles are doubles in the source.  Here an angle is an integer number   *)
(* of ticks, TicksPerDegree ticks to one degree, so every comparison and   *)
(* every quotient below is exact.                                          *)
(***************************************************************************)
EXTENDS Integers, Sequences, FiniteSets, TLC

VARIABLES
    insn,       \* the turn instructions at an intersection, in angular order
    call,       \* the last resolve / resolveTransitive call and its result
    fcall,      \* a call of one of the pure functions and its result
    names,      \* requiresNameAnnounced: its arguments, locals and result
    geo         \* getRepresentativeCoordinate: its arguments, locals and result

vars == <<insn, call, fcall, names, geo>>

-----------------------------------------------------------------------------
(* Bounds of the model *)

\* ticks per degree: the resolution at which angles are enumerated
TicksPerDegree == 2
\* angularDeviation is tried on angles from -360*ExtraTurns to 360*(ExtraTurns+1)
ExtraTurns == 1
\* longest road name tried by requiresNameAnnounced
MaxNameLen == 3
\* most intermediate nodes in a compressed geometry bucket
MaxBucket == 3

-----------------------------------------------------------------------------
(* DirectionModifier and TurnType (extractor/guidance/turn_instruction.hpp) *)

UTurn == 0
SharpRight == 1
Right == 2
SlightRight == 3
Straight == 4
SlightLeft == 5
Left == 6
SharpLeft == 7
num_direction_modifiers == 8

DirectionModifier == 0 .. (num_direction_modifiers - 1)

TurnType == {"Turn", "NoTurn"}

TurnInstruction == [type : TurnType, direction_modifier : DirectionModifier]

-----------------------------------------------------------------------------
(* Direction modifier algebra *)

shiftable_ccw(modifier) ==
    <<FALSE, TRUE, TRUE, FALSE, FALSE, TRUE, TRUE, FALSE>>[modifier + 1]

shiftable_cw_swapped(modifier) ==
    <<FALSE, TRUE, TRUE, FALSE, FALSE, TRUE, TRUE, FALSE>>[modifier + 1]

shiftable_cw(modifier) ==
    <<FALSE, FALSE, TRUE, TRUE, FALSE, FALSE, TRUE, TRUE>>[modifier + 1]

forcedShiftCCW(modifier) == (modifier + 1) % num_direction_modifiers

shiftCCW(modifier) ==
    IF shiftable_ccw(modifier) THEN forcedShiftCCW(modifier) ELSE modifier

forcedShiftCW_plus(modifier) == (modifier + 1) % num_direction_modifiers

forcedShiftCW(modifier) ==
    (modifier + num_direction_modifiers - 1) % num_direction_modifiers

shiftCW(modifier) ==
    IF shiftable_cw(modifier) THEN forcedShiftCW(modifier) ELSE modifier

-----------------------------------------------------------------------------
(* Conflict resolution.  The source mutates its reference arguments; here a *)
(* call returns its result together with the new values of the arguments.  *)

resolve_ignoring_neighbor(to_resolve, neighbor, resolve_cw) ==
    LET shifted_turn == IF resolve_cw THEN shiftCW(to_resolve.direction_modifier)
                                      ELSE shiftCCW(to_resolve.direction_modifier)
    IN  IF shifted_turn = to_resolve.direction_modifier
        THEN [ret |-> FALSE, to_resolve |-> to_resolve]
        ELSE [ret |-> TRUE,
              to_resolve |-> [to_resolve EXCEPT !.direction_modifier = shifted_turn]]

resolve(to_resolve, neighbor, resolve_cw) ==
    LET shifted_turn == IF resolve_cw THEN shiftCW(to_resolve.direction_modifier)
                                      ELSE shiftCCW(to_resolve.direction_modifier)
    IN  IF \/ shifted_turn = neighbor.direction_modifier
           \/ shifted_turn = to_resolve.direction_modifier
        THEN [ret |-> FALSE, to_resolve |-> to_resolve]
        ELSE [ret |-> TRUE,
              to_resolve |-> [to_resolve EXCEPT !.direction_modifier = shifted_turn]]

resolveTransitive(first, second, third, resolve_cw) ==
    LET r == resolve(second, third, resolve_cw)
    IN  IF r.ret
        THEN [ret |-> TRUE,
              first |-> [first EXCEPT !.direction_modifier =
                            IF resolve_cw THEN shiftCW(first.direction_modifier)
                                          ELSE shiftCCW(first.direction_modifier)],
              second |-> r.to_resolve]
        ELSE [ret |-> FALSE, first |-> first, second |-> second]

-----------------------------------------------------------------------------
(* The intersection: three neighbouring turn instructions, on which         *)
(* resolve and resolveTransitive are called in any order.                   *)

Positions == {1, 2, 3}

NoCall == [op |-> "none", idx |-> <<>>, args |-> <<>>, cw |-> FALSE, ret |-> FALSE]

\* neighbouring pairs and triples, in either orientation
Pairs == {<<1, 2>>, <<2, 1>>, <<2, 3>>, <<3, 2>>}
Triples == {<<1, 2, 3>>, <<3, 2, 1>>}

IdleFunctions == [op |-> "none", a |-> 0, b |-> 0, ret |-> 0, done |-> TRUE]
IdleNames == [from |-> <<>>, to |-> <<>>, pc |-> "idle", ret |-> FALSE]
IdleGeo ==
    [pc |-> "idle", from_node |-> 1, to_node |-> 1, traverse_in_reverse |-> FALSE,
     has_entry |-> FALSE, geometry |-> <<>>, itr |-> 0, current_coordinate |-> 0,
     final_coordinate |-> 0, distance_to_current_coordinate |-> 0, result |-> 0]

InitResolve ==
    /\ insn \in [Positions -> TurnInstruction]
    /\ call = NoCall
    /\ fcall = IdleFunctions
    /\ names = IdleNames
    /\ geo = IdleGeo

Resolve(p, resolve_cw) ==
    LET r == resolve(insn[p[1]], insn[p[2]], resolve_cw)
    IN  /\ insn' = [insn EXCEPT ![p[1]] = r.to_resolve]
        /\ call' = [op |-> "resolve", idx |-> p,
                    args |-> <<insn[p[1]], insn[p[2]]>>,
                    cw |-> resolve_cw, ret |-> r.ret]
        /\ UNCHANGED <<fcall, names, geo>>

ResolveTransitive(t, resolve_cw) ==
    LET r == resolveTransitive(insn[t[1]], insn[t[2]], insn[t[3]], resolve_cw)
    IN  /\ insn' = [insn EXCEPT ![t[1]] = r.first, ![t[2]] = r.second]
        /\ call' = [op |-> "resolveTransitive", idx |-> t,
                    args |-> <<insn[t[1]], insn[t[2]], insn[t[3]]>>,
                    cw |-> resolve_cw, ret |-> r.ret]
        /\ UNCHANGED <<fcall, names, geo>>

NextResolve ==
    \/ \E p \in Pairs, resolve_cw \in BOOLEAN : Resolve(p, resolve_cw)
    \/ \E t \in Triples, resolve_cw \in BOOLEAN : ResolveTransitive(t, resolve_cw)

SpecResolve == InitResolve /\ [][NextResolve]_vars

-----------------------------------------------------------------------------
(* Properties of conflict resolution *)

\* the shift a call asks for, respecting the shiftability flags
FlagShift(resolve_cw, modifier) ==
    IF resolve_cw THEN shiftCW(modifier) ELSE shiftCCW(modifier)

\* exactly one position around the circle in the requested rotation
OnePosition(resolve_cw, modifier) ==
    IF resolve_cw THEN (modifier + num_direction_modifiers - 1) % num_direction_modifiers
                  ELSE (modifier + 1) % num_direction_modifiers

\* the side of the road a modifier points to
SideClass(modifier) ==
    CASE modifier = UTurn -> "uturn"
      [] modifier = Straight -> "straight"
      [] modifier \in {SharpRight, Right, SlightRight} -> "right"
      [] modifier \in {SlightLeft, Left, SharpLeft} -> "left"

\* C1: whenever resolving second against third succeeds, resolveTransitive
\* returns true and first's modifier is exactly one position further in the
\* requested rotation (never zero positions, never more than one).
C1_FirstForcedOnePosition ==
    call.op = "resolveTransitive" =>
        (resolve(call.args[2], call.args[3], call.cw).ret =>
            /\ call.ret
            /\ insn[call.idx[1]].direction_modifier =
                   OnePosition(call.cw, call.args[1].direction_modifier))

\* C2: after a successful resolveTransitive, a first that differed from
\* second before the call still differs from second.
C2_FirstStillDiffersFromSecond ==
    (/\ call.op = "resolveTransitive"
     /\ call.ret
     /\ call.args[1].direction_modifier # call.args[2].direction_modifier)
        => insn[call.idx[1]].direction_modifier # insn[call.idx[2]].direction_modifier

\* C3: with s the flag-respecting shift of the candidate's modifier, resolve
\* fails and leaves the candidate untouched when s is the neighbor's modifier
\* or the candidate's own; otherwise it succeeds, the modifier becomes s and
\* the type stays, so the new modifier differs from the old one and from the
\* neighbor's.
C3_Resolve ==
    call.op = "resolve" =>
        LET candidate == call.args[1]
            neighbor == call.args[2]
            now == insn[call.idx[1]]
            s == FlagShift(call.cw, candidate.direction_modifier)
        IN  IF s = neighbor.direction_modifier \/ s = candidate.direction_modifier
            THEN ~call.ret /\ now = candidate
            ELSE /\ call.ret
                 /\ now.direction_modifier = s
                 /\ now.type = candidate.type
                 /\ now.direction_modifier # candidate.direction_modifier
                 /\ now.direction_modifier # neighbor.direction_modifier

\* a resolve that fails only because the shifted modifier is the neighbor's
C3_Witness ==
    /\ call.op = "resolve"
    /\ ~call.ret
    /\ FlagShift(call.cw, call.args[1].direction_modifier)
           = call.args[2].direction_modifier
    /\ call.args[1].direction_modifier # call.args[2].direction_modifier

\* C10: no resolve or resolveTransitive call moves an instruction out of its
\* side class ({UTurn}, {Straight}, the right-hand and the left-hand
\* modifiers), so every sequence of calls keeps each instruction in the class
\* it started in.
C10_SidePreserved ==
    [][\A i \in Positions :
          SideClass(insn'[i].direction_modifier) = SideClass(insn[i].direction_modifier)]_vars

\* a resolveTransitive that moved both first and second
C10_Witness ==
    /\ call.op = "resolveTransitive"
    /\ call.ret
    /\ insn[call.idx[1]].direction_modifier # call.args[1].direction_modifier
    /\ insn[call.idx[2]].direction_modifier # call.args[2].direction_modifier

-----------------------------------------------------------------------------
(* Angle discretization, deviation and classification *)

\* d degrees, in ticks
Deg(d) == d * TicksPerDegree

Abs(x) == IF x < 0 THEN -x ELSE x

\* detail::discrete_angle_step_size = 360. / 256., in degrees, as a fraction
discrete_angle_step_size == [num |-> 360, den |-> 256]

\* static_cast<std::uint8_t> of the non-negative double num / den: the value
\* truncated when it fits 8 bits; a value that does not fit is undefined
\* behaviour, and any 8-bit value may come out.
static_cast_uint8(num, den) ==
    IF num \div den <= 255 THEN {num \div den} ELSE 0 .. 255

\* the buckets discretizeAngle may return for an angle (in ticks) in [0, 360]
discretizeAngle(angle) ==
    static_cast_uint8(angle * discrete_angle_step_size.den,
                      TicksPerDegree * discrete_angle_step_size.num)

angularDeviation_signed(angle, from) ==
    LET deviation == angle - from
    IN  IF deviation < Deg(360) - deviation THEN deviation ELSE Deg(360) - deviation

angularDeviation(angle, from) ==
    LET deviation == Abs(angle - from)
    IN  IF deviation < Deg(360) - deviation THEN deviation ELSE Deg(360) - deviation

getTurnDirection_straight_last(angle) ==
    IF angle > 0 /\ angle < Deg(60) THEN SharpRight
    ELSE IF angle >= Deg(60) /\ angle < Deg(140) THEN Right
    ELSE IF angle >= Deg(140) /\ angle < Deg(170) THEN SlightRight
    ELSE IF angle > Deg(190) /\ angle <= Deg(220) THEN SlightLeft
    ELSE IF angle >= Deg(165) /\ angle <= Deg(195) THEN Straight
    ELSE IF angle > Deg(220) /\ angle <= Deg(300) THEN Left
    ELSE IF angle > Deg(300) /\ angle < Deg(360) THEN SharpLeft
    ELSE UTurn

getTurnDirection(angle) ==
    IF angle > 0 /\ angle < Deg(60) THEN SharpRight
    ELSE IF angle >= Deg(60) /\ angle < Deg(140) THEN Right
    ELSE IF angle >= Deg(140) /\ angle < Deg(170) THEN SlightRight
    ELSE IF angle >= Deg(165) /\ angle <= Deg(195) THEN Straight
    ELSE IF angle > Deg(190) /\ angle <= Deg(220) THEN SlightLeft
    ELSE IF angle > Deg(220) /\ angle <= Deg(300) THEN Left
    ELSE IF angle > Deg(300) /\ angle < Deg(360) THEN SharpLeft
    ELSE UTurn

-----------------------------------------------------------------------------
(* Calls of the pure functions: the arguments are drawn at the start, the   *)
(* call computes the result.                                                *)

\* the angles of [0, 360], in ticks
Angles == 0 .. Deg(360)

\* every tenth degree from -360*ExtraTurns to 360*(ExtraTurns+1), in ticks
WideAngles == {Deg(10) * k : k \in (-36 * ExtraTurns) .. (36 * (ExtraTurns + 1))}

FunctionInputs ==
    [op : {"shiftCW", "shiftCCW"}, a : DirectionModifier, b : {0}]
    \cup [op : {"discretizeAngle", "getTurnDirection"}, a : Angles, b : {0}]
    \cup [op : {"angularDeviation"}, a : WideAngles, b : WideAngles]

InitFunctions ==
    /\ \E in \in FunctionInputs :
          fcall = [op |-> in.op, a |-> in.a, b |-> in.b, ret |-> 0, done |-> FALSE]
    /\ insn = [i \in Positions |-> [type |-> "Turn", direction_modifier |-> UTurn]]
    /\ call = NoCall
    /\ names = IdleNames
    /\ geo = IdleGeo

Return(value) ==
    /\ fcall' = [fcall EXCEPT !.ret = value, !.done = TRUE]
    /\ UNCHANGED <<insn, call, names, geo>>

CallShiftCW ==
    /\ fcall.op = "shiftCW" /\ ~fcall.done
    /\ Return(shiftCW(fcall.a))

CallShiftCCW ==
    /\ fcall.op = "shiftCCW" /\ ~fcall.done
    /\ Return(shiftCCW(fcall.a))

CallDiscretizeAngle ==
    /\ fcall.op = "discretizeAngle" /\ ~fcall.done
    /\ \E bucket \in discretizeAngle(fcall.a) : Return(bucket)

CallAngularDeviation ==
    /\ fcall.op = "angularDeviation" /\ ~fcall.done
    /\ Return(angularDeviation(fcall.a, fcall.b))

CallGetTurnDirection ==
    /\ fcall.op = "getTurnDirection" /\ ~fcall.done
    /\ Return(getTurnDirection(fcall.a))

NextFunctions ==
    \/ CallShiftCW
    \/ CallShiftCCW
    \/ CallDiscretizeAngle
    \/ CallAngularDeviation
    \/ CallGetTurnDirection

SpecFunctions == InitFunctions /\ [][NextFunctions]_vars

Returned(op) == fcall.op = op /\ fcall.done

-----------------------------------------------------------------------------
(* Properties of the pure functions *)

\* the circle of modifiers in the order UTurn, SharpRight, Right, SlightRight,
\* Straight, SlightLeft, Left, SharpLeft, and back to UTurn
CircleOrder ==
    <<UTurn, SharpRight, Right, SlightRight, Straight, SlightLeft, Left, SharpLeft>>

PositionOf(m) == CHOOSE i \in 1 .. Len(CircleOrder) : CircleOrder[i] = m
FollowsInOrder(m) == CircleOrder[(PositionOf(m) % Len(CircleOrder)) + 1]
PrecedesInOrder(m) ==
    CircleOrder[((PositionOf(m) + Len(CircleOrder) - 2) % Len(CircleOrder)) + 1]

FlaggedShiftableCW == {Right, SlightRight, Left, SharpLeft}

\* C4, as stated: shiftCW of a modifier flagged shiftable clockwise is the
\* modifier that follows it in the circle order, and every other modifier is
\* returned unchanged.
C4_ShiftCWFollows ==
    Returned("shiftCW") =>
        fcall.ret = IF fcall.a \in FlaggedShiftableCW THEN FollowsInOrder(fcall.a)
                                                      ELSE fcall.a

\* C4, amended: shiftCW of a modifier flagged shiftable clockwise (Right,
\* SlightRight, Left, SharpLeft) is the modifier that precedes it in the circle
\* order, so shiftCW(Right) = SharpRight; every other modifier (UTurn,
\* SharpRight, Straight, SlightLeft) is returned unchanged.
C4_ShiftCWPrecedes ==
    Returned("shiftCW") =>
        fcall.ret = IF fcall.a \in FlaggedShiftableCW THEN PrecedesInOrder(fcall.a)
                                                      ELSE fcall.a

C4_Witness == Returned("shiftCW") /\ fcall.a = Right /\ fcall.ret = SharpRight

InRightOverlap(angle) == angle >= Deg(165) /\ angle < Deg(170)
InLeftOverlap(angle) == angle > Deg(190) /\ angle <= Deg(195)

\* C5, as stated: an angle in an overlap of the Straight band with a slight
\* band is classified as the slight modifier, never as Straight.
C5_OverlapsNeverStraight ==
    Returned("getTurnDirection") =>
        /\ InRightOverlap(fcall.a) => fcall.ret = SlightRight
        /\ InLeftOverlap(fcall.a) => fcall.ret = SlightLeft

\* C5, amended: the first matching band wins, so an angle with
\* 165 <= angle < 170 is SlightRight, and an angle with 190 < angle <= 195 is
\* Straight, the Straight band being tested before the SlightLeft band.
C5_FirstBandWins ==
    Returned("getTurnDirection") =>
        /\ InRightOverlap(fcall.a) => fcall.ret = SlightRight
        /\ InLeftOverlap(fcall.a) => fcall.ret = Straight

C5_Witness ==
    Returned("getTurnDirection") /\ InLeftOverlap(fcall.a) /\ fcall.ret = Straight

\* C7: for every angle of [0, 360], 360 included, the bucket is
\* floor(angle / (360/256)): nothing is lost in the conversion to 8 bits.
C7_BucketIsFloor ==
    Returned("discretizeAngle") =>
        fcall.ret = (fcall.a * 256) \div (360 * TicksPerDegree)

\* C8, as stated: for all a and b, in [0, 360] or not, angularDeviation(a, a)
\* is 0, angularDeviation(a, b) = angularDeviation(b, a), and the result is in
\* [0, 180].
C8_DeviationAllAngles ==
    Returned("angularDeviation") =>
        /\ fcall.a = fcall.b => fcall.ret = 0
        /\ fcall.ret = angularDeviation(fcall.b, fcall.a)
        /\ 0 <= fcall.ret /\ fcall.ret <= Deg(180)

\* C8, amended: for all a and b, angularDeviation(a, a) is 0 and
\* angularDeviation(a, b) = angularDeviation(b, a); the result is in [0, 180]
\* whenever |a - b| <= 360, which covers all a and b in [0, 360].
C8_DeviationWithinFullTurn ==
    Returned("angularDeviation") =>
        /\ fcall.a = fcall.b => fcall.ret = 0
        /\ fcall.ret = angularDeviation(fcall.b, fcall.a)
        /\ Abs(fcall.a - fcall.b) <= Deg(360) =>
              (0 <= fcall.ret /\ fcall.ret <= Deg(180))

\* two different angles outside [0, 360], less than a full turn apart
C8_Witness ==
    /\ Returned("angularDeviation")
    /\ fcall.a < 0 /\ fcall.b > fcall.a
    /\ Abs(fcall.a - fcall.b) <= Deg(360)
    /\ fcall.ret > 0

-----------------------------------------------------------------------------
(* Name-change significance.  A std::string is a sequence of characters;    *)
(* positions count from 0 as in the source, and std::size_t arithmetic      *)
(* wraps around (the width is cut to 16 bits, far above any length tried).  *)

Chars == {"a", " ", "(", ")"}

size_t_modulus == 2 ^ 16
npos == size_t_modulus - 1

Min(x, y) == IF x < y THEN x ELSE y

\* std::string::find_first_of(char)
find_first_of(str, c) ==
    IF \E i \in 1 .. Len(str) : str[i] = c
    THEN (CHOOSE i \in 1 .. Len(str) :
             str[i] = c /\ \A j \in 1 .. (i - 1) : str[j] # c) - 1
    ELSE npos

\* std::string::substr(pos, count), for pos <= size()
substr(str, pos, count) ==
    SubSeq(str, pos + 1, pos + Min(count, Len(str) - pos))

\* whether std::string::find(sub) != npos
contains(str, sub) ==
    \E i \in 0 .. (Len(str) - Len(sub)) : SubSeq(str, i + 1, i + Len(sub)) = sub

\* the lambda split: "{name} ({ref})" -> name, ref; both start out empty
split(name) ==
    LET ref_begin == find_first_of(name, "(")
        ref_end == find_first_of(name, ")")
    IN  IF ref_begin # npos
        THEN [name |-> IF ref_begin # 0 THEN substr(name, 0, ref_begin - 1) ELSE <<>>,
              ref |-> substr(name, ref_begin + 1,
                             (ref_end - ref_begin - 1 + 2 * size_t_modulus)
                                 % size_t_modulus)]
        ELSE [name |-> name, ref |-> <<>>]

requiresNameAnnounced_no_removal(from, to) ==
    LET from_name == split(from).name
        from_ref == split(from).ref
        to_name == split(to).name
        to_ref == split(to).ref
        names_are_empty == from_name = <<>> /\ to_name = <<>>
        names_are_equal == from_name = to_name
        refs_are_empty == from_ref = <<>> /\ to_ref = <<>>
        ref_is_contained ==
            \/ from_ref = <<>>
            \/ to_ref = <<>>
            \/ contains(from_ref, to_ref)
            \/ contains(to_ref, from_ref)
        ref_is_removed == from_ref # <<>> /\ to_ref = <<>>
        obvious_change ==
            \/ names_are_empty /\ refs_are_empty
            \/ names_are_equal /\ ref_is_contained
            \/ names_are_equal /\ refs_are_empty
            \/ ref_is_removed
    IN  ~obvious_change

requiresNameAnnounced(from, to) ==
    LET from_name == split(from).name
        from_ref == split(from).ref
        to_name == split(to).name
        to_ref == split(to).ref
        names_are_empty == from_name = <<>> /\ to_name = <<>>
        names_are_equal == from_name = to_name
        name_is_removed == from_name # <<>> /\ to_name = <<>>
        refs_are_empty == from_ref = <<>> /\ to_ref = <<>>
        ref_is_contained ==
            \/ from_ref = <<>>
            \/ to_ref = <<>>
            \/ contains(from_ref, to_ref)
            \/ contains(to_ref, from_ref)
        ref_is_removed == from_ref # <<>> /\ to_ref = <<>>
        obvious_change ==
            \/ names_are_empty /\ refs_are_empty
            \/ names_are_equal /\ ref_is_contained
            \/ names_are_equal /\ refs_are_empty
            \/ name_is_removed
            \/ ref_is_removed
    IN  ~obvious_change

\* the strings of at most MaxNameLen characters
Strings == UNION {[1 .. n -> Chars] : n \in 0 .. MaxNameLen}

InitNames ==
    /\ \E from \in Strings, to \in Strings :
          names = [from |-> from, to |-> to, pc |-> "call", ret |-> FALSE]
    /\ insn = [i \in Positions |-> [type |-> "Turn", direction_modifier |-> UTurn]]
    /\ call = NoCall
    /\ fcall = IdleFunctions
    /\ geo = IdleGeo

CallRequiresNameAnnounced ==
    /\ names.pc = "call"
    /\ names' = [names EXCEPT !.ret = requiresNameAnnounced(names.from, names.to),
                              !.pc = "done"]
    /\ UNCHANGED <<insn, call, fcall, geo>>

NextNames == CallRequiresNameAnnounced

SpecNames == InitNames /\ [][NextNames]_vars

\* a string without a reference part: no opening parenthesis
IsPlain(str) == \A i \in 1 .. Len(str) : str[i] # "("

\* C9: for from and to without '(', an announcement is required exactly when
\* to is non-empty and differs from from.
C9_PlainNames ==
    (names.pc = "done" /\ IsPlain(names.from) /\ IsPlain(names.to)) =>
        (names.ret <=> (names.to # <<>> /\ names.to # names.from))

\* two different non-empty plain names, announced
C9_Witness ==
    /\ names.pc = "done"
    /\ IsPlain(names.from) /\ IsPlain(names.to)
    /\ names.from # <<>> /\ names.to # <<>> /\ names.from # names.to
    /\ names.ret

-----------------------------------------------------------------------------
(* Geometry sampler.  The road network lies on a line: a coordinate is an   *)
(* integer position, the distance of two coordinates is the absolute        *)
(* difference, and a path may run back and forth.  A factor is a fraction.  *)

DESIRED_SEGMENT_LENGTH == 10

\* query_nodes[id]: the coordinate of a node
query_nodes == <<0, 4, 10, 13, 25>>

NodeID == 1 .. Len(query_nodes)

\* util::coordinate_calculation::haversineDistance
haversineDistance(a, b) == Abs(a - b)

\* util::coordinate_calculation::interpolateLinear
interpolateLinear(factor, a, b) == a + (factor.num * (b - a)) \div factor.den

getFactor_from_origin(first_distance, second_distance) ==
    LET segment_length == second_distance - first_distance
        missing_distance == DESIRED_SEGMENT_LENGTH
    IN  IF missing_distance < 0 THEN [num |-> 0, den |-> 1]
        ELSE IF missing_distance > segment_length THEN [num |-> 1, den |-> 1]
        ELSE [num |-> missing_distance, den |-> segment_length]

\* the lambda getFactor: max(0, min(missing_distance / segment_length, 1.0)),
\* called with first_distance < DESIRED_SEGMENT_LENGTH <= second_distance
getFactor(first_distance, second_distance) ==
    LET segment_length == second_distance - first_distance
        missing_distance == DESIRED_SEGMENT_LENGTH - first_distance
    IN  IF missing_distance < 0 THEN [num |-> 0, den |-> 1]
        ELSE IF missing_distance > segment_length THEN [num |-> 1, den |-> 1]
        ELSE [num |-> missing_distance, den |-> segment_length]

\* the non-empty buckets of at most MaxBucket intermediate nodes
Buckets == UNION {[1 .. n -> NodeID] : n \in 1 .. MaxBucket}

GeoInputs ==
    [from_node : NodeID, to_node : NodeID, traverse_in_reverse : BOOLEAN,
     has_entry : {TRUE}, geometry : Buckets]
    \cup [from_node : NodeID, to_node : NodeID, traverse_in_reverse : BOOLEAN,
          has_entry : {FALSE}, geometry : {<<>>}]

InitGeometry ==
    /\ \E in \in GeoInputs :
          geo = [pc |-> "call",
                 from_node |-> in.from_node, to_node |-> in.to_node,
                 traverse_in_reverse |-> in.traverse_in_reverse,
                 has_entry |-> in.has_entry, geometry |-> in.geometry,
                 itr |-> 0, current_coordinate |-> 0, final_coordinate |-> 0,
                 distance_to_current_coordinate |-> 0, result |-> 0]
    /\ insn = [i \in Positions |-> [type |-> "Turn", direction_modifier |-> UTurn]]
    /\ call = NoCall
    /\ fcall = IdleFunctions
    /\ names = IdleNames

\* the node the iterator points to: begin()..end() or rbegin()..rend()
NodeAt(g, i) ==
    IF g.traverse_in_reverse THEN g.geometry[Len(g.geometry) - i + 1]
                             ELSE g.geometry[i]

\* getRepresentativeCoordinate on an edge without compressed geometry
UncompressedEdge ==
    /\ geo.pc = "call" /\ ~geo.has_entry
    /\ geo' = [geo EXCEPT !.pc = "done",
                          !.result = IF geo.traverse_in_reverse
                                     THEN query_nodes[geo.from_node]
                                     ELSE query_nodes[geo.to_node]]
    /\ UNCHANGED <<insn, call, fcall, names>>

\* getRepresentativeCoordinate up to the call of getCoordinateFromCompressedRange
CompressedEdge ==
    /\ geo.pc = "call" /\ geo.has_entry
    /\ LET base_node_id == IF geo.traverse_in_reverse THEN geo.to_node ELSE geo.from_node
           final_node == IF geo.traverse_in_reverse THEN geo.from_node ELSE geo.to_node
       IN  geo' = [geo EXCEPT !.pc = "loop", !.itr = 1,
                              !.current_coordinate = query_nodes[base_node_id],
                              !.final_coordinate = query_nodes[final_node],
                              !.distance_to_current_coordinate = 0]
    /\ UNCHANGED <<insn, call, fcall, names>>

\* one iteration of the loop over the compressed geometry
LoopIteration ==
    /\ geo.pc = "loop" /\ geo.itr <= Len(geo.geometry)
    /\ LET next_coordinate == query_nodes[NodeAt(geo, geo.itr)]
           distance_to_next_coordinate ==
               geo.distance_to_current_coordinate
                   + haversineDistance(geo.current_coordinate, next_coordinate)
       IN  IF distance_to_next_coordinate >= DESIRED_SEGMENT_LENGTH
           THEN geo' = [geo EXCEPT
                          !.pc = "done",
                          !.result = interpolateLinear(
                              getFactor(geo.distance_to_current_coordinate,
                                        distance_to_next_coordinate),
                              geo.current_coordinate, next_coordinate)]
           ELSE geo' = [geo EXCEPT
                          !.itr = geo.itr + 1,
                          !.current_coordinate = next_coordinate,
                          !.distance_to_current_coordinate = distance_to_next_coordinate]
    /\ UNCHANGED <<insn, call, fcall, names>>

\* after the loop: the segment to the final coordinate
FinalSegment ==
    /\ geo.pc = "loop" /\ geo.itr > Len(geo.geometry)
    /\ LET distance_to_next_coordinate ==
               geo.distance_to_current_coordinate
                   + haversineDistance(geo.current_coordinate, geo.final_coordinate)
       IN  IF /\ geo.distance_to_current_coordinate < DESIRED_SEGMENT_LENGTH
              /\ distance_to_next_coordinate >= DESIRED_SEGMENT_LENGTH
           THEN geo' = [geo EXCEPT
                          !.pc = "done",
                          !.result = interpolateLinear(
                              getFactor(geo.distance_to_current_coordinate,
                                        distance_to_next_coordinate),
                              geo.current_coordinate, geo.final_coordinate)]
           ELSE geo' = [geo EXCEPT !.pc = "done", !.result = geo.final_coordinate]
    /\ UNCHANGED <<insn, call, fcall, names>>

NextGeometry ==
    \/ UncompressedEdge
    \/ CompressedEdge
    \/ LoopIteration
    \/ FinalSegment

SpecGeometry == InitGeometry /\ [][NextGeometry]_vars

-----------------------------------------------------------------------------
(* Properties of the geometry sampler *)

\* the walk of a call: origin, the bucket in the requested order, final endpoint
WalkOf(g) ==
    LET n == Len(g.geometry)
        origin == IF g.traverse_in_reverse THEN g.to_node ELSE g.from_node
        final == IF g.traverse_in_reverse THEN g.from_node ELSE g.to_node
    IN  [k \in 1 .. (n + 2) |->
            IF k = 1 THEN query_nodes[origin]
            ELSE IF k = n + 2 THEN query_nodes[final]
            ELSE query_nodes[IF g.traverse_in_reverse THEN g.geometry[n - (k - 1) + 1]
                                                      ELSE g.geometry[k - 1]]]

\* the distance along the walk from its origin to its k-th point
RECURSIVE Cumulative(_, _)
Cumulative(walk, k) ==
    IF k = 1 THEN 0
    ELSE Cumulative(walk, k - 1) + Abs(walk[k] - walk[k - 1])

\* the point of segment k of the walk at path distance d from the origin
PointAt(walk, k, d) ==
    LET along == d - Cumulative(walk, k)
    IN  IF walk[k + 1] >= walk[k] THEN walk[k] + along ELSE walk[k] - along

\* the segments whose cumulative end distance reaches the target
Reaching(walk) ==
    {k \in 1 .. (Len(walk) - 1) : Cumulative(walk, k + 1) >= DESIRED_SEGMENT_LENGTH}

\* C6: on an edge with compressed geometry the sampler stops at the first
\* segment of the walk whose cumulative end distance is >= 10 and returns the
\* point at path distance exactly 10 (the end point itself when the distance
\* there is exactly 10); a walk shorter than 10 yields the final endpoint.
\* The result lies at path distance min(10, total length) from the origin.
C6_Sampler ==
    (geo.pc = "done" /\ geo.has_entry) =>
        LET walk == WalkOf(geo)
            total == Cumulative(walk, Len(walk))
            reached == geo.distance_to_current_coordinate
                           + Abs(geo.result - geo.current_coordinate)
        IN  /\ reached = Min(DESIRED_SEGMENT_LENGTH, total)
            /\ IF Reaching(walk) # {}
               THEN LET k == CHOOSE s \in Reaching(walk) :
                                 \A t \in Reaching(walk) : s <= t
                    IN  /\ geo.itr = k
                        /\ geo.current_coordinate = walk[k]
                        /\ geo.distance_to_current_coordinate = Cumulative(walk, k)
                        /\ geo.result = PointAt(walk, k, DESIRED_SEGMENT_LENGTH)
                        /\ Cumulative(walk, k + 1) = DESIRED_SEGMENT_LENGTH
                               => geo.result = walk[k + 1]
               ELSE geo.result = walk[Len(walk)]

\* a reversed walk that runs back and forth and is cut inside a bucket segment
C6_Witness ==
    /\ geo.pc = "done" /\ geo.has_entry /\ geo.traverse_in_reverse
    /\ geo.itr > 1 /\ geo.itr <= Len(geo.geometry)
    /\ geo.distance_to_current_coordinate
           > Abs(geo.current_coordinate - query_nodes[geo.to_node])
    /\ geo.result # geo.current_coordinate
    /\ geo.result # query_nodes[NodeAt(geo, geo.itr)]

=============================================================================
